---- MODULE Spec2Model ----
(***************************************************************************)
(* Model of the calculator's safe expression evaluator (src/main.py) and   *)
(* of the HTTP layer's bounded history log (src/api.py).                   *)
(*                                                                         *)
(* An expression is a sequence of one-character strings.  Numbers are      *)
(* exact rationals n/d tagged with their Python type; a Python float is    *)
(* modelled by the rational it denotes (IEEE rounding is not modelled).    *)
(***************************************************************************)
EXTENDS Integers, Sequences, FiniteSets, TLC

VARIABLES
    pc,        \* position inside evaluate_expression: "call","replaced","parsed","done"
    input,     \* the string evaluate_expression was called with
    expr,      \* the local variable expr of evaluate_expression
    parsed,    \* the local variable parsed (outcome of ast.parse)
    result,    \* the outcome of the call (value or exception, with its trace)
    file,      \* contents of calc_history.json, as the list json.load returns
    clock,     \* number of timestamps datetime.now() has handed out
    resp,      \* the last HTTP response of the sequential API
    pushed,    \* ghost: every record pushed since the last clear, newest first
    cpc,       \* per client: position inside a concurrent /calc request
    chist,     \* per client: the local variable history of push_history
    citem      \* per client: the record being pushed

vars == <<pc, input, expr, parsed, result, file, clock, resp, pushed, cpc, chist, citem>>

evalVars == <<pc, input, expr, parsed, result>>
apiVars  == <<file, clock, resp, pushed>>
concVars == <<cpc, chist, citem>>

----------------------------------------------------------------------------
(* Numbers *)

Abs(x) == IF x < 0 THEN -x ELSE x

RECURSIVE Gcd(_, _)
Gcd(a, b) == IF b = 0 THEN a ELSE Gcd(b, a % b)

RECURSIVE IPow(_, _)
IPow(b, e) == IF e = 0 THEN 1 ELSE b * IPow(b, e - 1)

\* floor of a/b for b > 0 (TLC's \div floors)
FloorDiv(a, b) == a \div b

\* A Python value: t is the Python type, n/d the number (d = 0: a float or
\* complex whose digits the model does not track).
V(t, n, d) == [t |-> t, n |-> n, d |-> d]

\* the rational n/d in lowest terms with a positive denominator
Q(t, n, d) ==
    LET g == Gcd(Abs(n), Abs(d))
        s == IF d < 0 THEN -1 ELSE 1
    IN  V(t, s * (n \div g), s * (d \div g))

NoValue    == V("none", 0, 1)
Untracked  == V("float", 0, 0)
ComplexVal == V("complex", 0, 0)

IsTracked(v) == v.d # 0
IsZero(v)    == v.d # 0 /\ v.n = 0
IsNeg(v)     == v.d # 0 /\ v.n < 0
IsWhole(v)   == v.d = 1
IsIntLike(v) == v.t \in {"int", "bool"}
IsReal(v)    == v.t \in {"int", "bool", "float"}

\* outcome of a call: a value, or an exception class with its message
Ok(v)        == [ok |-> TRUE, val |-> v, exc |-> "", msg |-> ""]
Raise(e, m)  == [ok |-> FALSE, val |-> NoValue, exc |-> e, msg |-> m]

----------------------------------------------------------------------------
(* ALLOWED_OPERATORS: the operator module's functions on Python numbers *)

NumT(a, b) ==
    IF a.t = "complex" \/ b.t = "complex" THEN "complex"
    ELSE IF a.t = "float" \/ b.t = "float" THEN "float" ELSE "int"

\* a value of type t whose digits are not tracked
Opaque(t) == IF t = "complex" THEN ComplexVal ELSE Untracked

Exact(a, b) == NumT(a, b) # "complex" /\ IsTracked(a) /\ IsTracked(b)

op_add(a, b) ==
    IF Exact(a, b) THEN Ok(Q(NumT(a, b), a.n * b.d + b.n * a.d, a.d * b.d))
    ELSE Ok(Opaque(NumT(a, b)))

op_sub(a, b) ==
    IF Exact(a, b) THEN Ok(Q(NumT(a, b), a.n * b.d - b.n * a.d, a.d * b.d))
    ELSE Ok(Opaque(NumT(a, b)))

op_mul(a, b) ==
    IF Exact(a, b) THEN Ok(Q(NumT(a, b), a.n * b.n, a.d * b.d))
    ELSE Ok(Opaque(NumT(a, b)))

\* op_truediv with IEEE semantics: a zero divisor yields an infinity or a NaN
op_truediv_ieee(a, b) ==
    IF IsZero(b) THEN Ok(Untracked)
    ELSE IF Exact(a, b) THEN Ok(Q("float", a.n * b.d, a.d * b.n))
    ELSE Ok(Opaque(IF NumT(a, b) = "complex" THEN "complex" ELSE "float"))

\* a / b: true division always yields a float (or a complex)
op_truediv(a, b) ==
    IF IsZero(b)
    THEN Raise("ZeroDivisionError",
               IF NumT(a, b) = "float" THEN "float division by zero"
               ELSE "division by zero")
    ELSE IF Exact(a, b) THEN Ok(Q("float", a.n * b.d, a.d * b.n))
    ELSE Ok(Opaque(IF NumT(a, b) = "complex" THEN "complex" ELSE "float"))

\* a % b: the result takes the sign of the divisor
op_mod(a, b) ==
    IF NumT(a, b) = "complex"
    THEN Raise("TypeError", "unsupported operand type(s) for %")
    ELSE IF IsZero(b)
    THEN Raise("ZeroDivisionError",
               IF NumT(a, b) = "float" THEN "float modulo"
               ELSE "integer division or modulo by zero")
    ELSE IF ~Exact(a, b) THEN Ok(Untracked)
    ELSE LET num == a.n * b.d
             den == a.d * b.n
             f   == IF den < 0 THEN FloorDiv(-num, -den) ELSE FloorDiv(num, den)
         IN  Ok(Q(NumT(a, b), a.n * b.d - f * b.n * a.d, a.d * b.d))

\* k^q when that is at most n, and n + 1 otherwise
RECURSIVE PowLeq(_, _, _)
PowLeq(k, q, n) ==
    IF q = 0 THEN 1
    ELSE IF k = 0 THEN 0
    ELSE LET r == PowLeq(k, q - 1, n)
         IN  IF r > n \/ r * k > n THEN n + 1 ELSE r * k

\* the set of exact q-th roots of the natural n (empty or a singleton)
Roots(n, q) == {k \in 0..n : PowLeq(k, q, n) = n}

\* x^e for a tracked real x and a whole exponent e
WholePow(t, x, e) ==
    IF e >= 0 THEN Q(t, IPow(x.n, e), IPow(x.d, e))
    ELSE Q(t, IPow(x.d, -e), IPow(x.n, -e))

\* x^(p/q) for a tracked real x >= 0 and q > 1: exact when x is a perfect
\* q-th power, an untracked float otherwise
FracPow(x, p, q) ==
    IF Roots(x.n, q) = {} \/ Roots(x.d, q) = {} THEN Untracked
    ELSE LET rn == CHOOSE k \in Roots(x.n, q) : TRUE
             rd == CHOOSE k \in Roots(x.d, q) : TRUE
         IN  WholePow("float", Q("float", rn, rd), p)

\* a ** b
op_pow(a, b) ==
    IF NumT(a, b) = "complex" THEN Ok(ComplexVal)
    ELSE IF ~Exact(a, b) THEN Ok(Untracked)
    ELSE IF IsZero(a) /\ IsNeg(b)
    THEN Raise("ZeroDivisionError", "0.0 cannot be raised to a negative power")
    ELSE IF IsWhole(b)
    THEN Ok(WholePow(IF NumT(a, b) = "int" /\ b.n >= 0 THEN "int" ELSE "float", a, b.n))
    ELSE IF IsNeg(a) THEN Ok(ComplexVal)
    ELSE Ok(FracPow(a, b.n, b.d))

op_neg(a) ==
    IF ~IsTracked(a) THEN Ok(a)
    ELSE Ok(V(IF a.t = "bool" THEN "int" ELSE a.t, -a.n, a.d))

op_pos(a) ==
    IF ~IsTracked(a) THEN Ok(a)
    ELSE Ok(V(IF a.t = "bool" THEN "int" ELSE a.t, a.n, a.d))

BinaryOperators == {"Add", "Sub", "Mult", "Div", "Pow", "Mod"}
UnaryOperators  == {"USub", "UAdd"}
ALLOWED_OPERATORS == BinaryOperators \cup UnaryOperators

ApplyBinary(tag, a, b) ==
    CASE tag = "Add"  -> op_add(a, b)
      [] tag = "Sub"  -> op_sub(a, b)
      [] tag = "Mult" -> op_mul(a, b)
      [] tag = "Div"  -> op_truediv(a, b)
      [] tag = "Pow"  -> op_pow(a, b)
      [] tag = "Mod"  -> op_mod(a, b)
      [] OTHER        -> Raise("KeyError", tag)

ApplyUnary(tag, a) ==
    CASE tag = "USub" -> op_neg(a)
      [] tag = "UAdd" -> op_pos(a)
      [] OTHER        -> Raise("KeyError", tag)

----------------------------------------------------------------------------
(* ALLOWED_FUNCTIONS: math.sqrt, math.log, ..., abs, round *)

DomainError == Raise("ValueError", "math domain error")
ArityError(name) == Raise("TypeError", name \o "() called with a wrong number of arguments")
ArgTypeError(name) == Raise("TypeError", name \o "() argument is not a real number")

\* round-half-to-even of n/d (d > 0) to a whole number
RoundHalfEven(n, d) ==
    LET f == FloorDiv(n, d)
        r == n - f * d
    IN  IF 2 * r < d THEN f
        ELSE IF 2 * r > d THEN f + 1
        ELSE IF f % 2 = 0 THEN f ELSE f + 1

\* the whole e with b^e = x, for tracked reals x > 0 and b > 0, b # 1:
\* the set of such e in -LogSpan..LogSpan (empty or a singleton)
LogSpan == 6
ExactLogs(x, b) ==
    {e \in -LogSpan..LogSpan : WholePow("float", b, e) = Q("float", x.n, x.d)}

math_sqrt(args) ==
    IF Len(args) # 1 THEN ArityError("sqrt")
    ELSE IF ~IsReal(args[1]) THEN ArgTypeError("sqrt")
    ELSE IF ~IsTracked(args[1]) THEN Ok(Untracked)
    ELSE IF IsNeg(args[1]) THEN DomainError
    ELSE Ok(FracPow(args[1], 1, 2))

\* math.log(x[, base]) = log(x) / log(base)
math_log(args) ==
    IF Len(args) \notin {1, 2} THEN ArityError("log")
    ELSE IF \E i \in 1..Len(args) : ~IsReal(args[i]) THEN ArgTypeError("log")
    ELSE IF \E i \in 1..Len(args) : ~IsTracked(args[i]) THEN Ok(Untracked)
    ELSE IF args[1].n <= 0 THEN DomainError
    ELSE IF Len(args) = 1
    THEN (IF args[1].n = args[1].d THEN Ok(V("float", 0, 1)) ELSE Ok(Untracked))
    ELSE IF args[2].n <= 0 THEN DomainError
    ELSE IF args[2].n = args[2].d
    THEN Raise("ZeroDivisionError", "float division by zero")
    ELSE IF ExactLogs(args[1], args[2]) = {} THEN Ok(Untracked)
    ELSE Ok(V("float", CHOOSE e \in ExactLogs(args[1], args[2]) : TRUE, 1))

math_log10(args) ==
    IF Len(args) # 1 THEN ArityError("log10")
    ELSE IF ~IsReal(args[1]) THEN ArgTypeError("log10")
    ELSE IF ~IsTracked(args[1]) THEN Ok(Untracked)
    ELSE IF args[1].n <= 0 THEN DomainError
    ELSE IF ExactLogs(args[1], V("int", 10, 1)) = {} THEN Ok(Untracked)
    ELSE Ok(V("float", CHOOSE e \in ExactLogs(args[1], V("int", 10, 1)) : TRUE, 1))

\* sin, cos and tan are rational only at 0
Trig(name, args, atZero) ==
    IF Len(args) # 1 THEN ArityError(name)
    ELSE IF ~IsReal(args[1]) THEN ArgTypeError(name)
    ELSE IF IsZero(args[1]) THEN Ok(V("float", atZero, 1))
    ELSE Ok(Untracked)

math_sin(args) == Trig("sin", args, 0)
math_cos(args) == Trig("cos", args, 1)
math_tan(args) == Trig("tan", args, 0)

math_ceil(args) ==
    IF Len(args) # 1 THEN ArityError("ceil")
    ELSE IF ~IsReal(args[1]) THEN ArgTypeError("ceil")
    ELSE IF ~IsTracked(args[1]) THEN Ok(V("int", 0, 0))
    ELSE Ok(V("int", -FloorDiv(-args[1].n, args[1].d), 1))

math_floor(args) ==
    IF Len(args) # 1 THEN ArityError("floor")
    ELSE IF ~IsReal(args[1]) THEN ArgTypeError("floor")
    ELSE IF ~IsTracked(args[1]) THEN Ok(V("int", 0, 0))
    ELSE Ok(V("int", FloorDiv(args[1].n, args[1].d), 1))

\* abs of a complex is a float
builtin_abs(args) ==
    IF Len(args) # 1 THEN ArityError("abs")
    ELSE IF ~IsTracked(args[1]) THEN Ok(Untracked)
    ELSE Ok(V(IF args[1].t = "bool" THEN "int" ELSE args[1].t, Abs(args[1].n), args[1].d))

\* round(number[, ndigits]): an int without ndigits; with ndigits the type
\* of number, rounded half to even at 10^-ndigits
builtin_round(args) ==
    IF Len(args) \notin {1, 2} THEN ArityError("round")
    ELSE IF ~IsReal(args[1]) THEN ArgTypeError("round")
    ELSE IF Len(args) = 2 /\ ~IsIntLike(args[2])
    THEN Raise("TypeError", "object cannot be interpreted as an integer")
    ELSE IF ~IsTracked(args[1])
    THEN Ok(IF Len(args) = 1 THEN V("int", 0, 0) ELSE Untracked)
    ELSE IF Len(args) = 1 THEN Ok(V("int", RoundHalfEven(args[1].n, args[1].d), 1))
    ELSE LET x == args[1]
             k == args[2].n
             t == IF x.t = "float" THEN "float" ELSE "int"
         IN  IF k >= 0
             THEN Ok(Q(t, RoundHalfEven(x.n * IPow(10, k), x.d), IPow(10, k)))
             ELSE Ok(Q(t, RoundHalfEven(x.n, x.d * IPow(10, -k)) * IPow(10, -k), 1))

ALLOWED_FUNCTIONS ==
    {"sqrt", "log", "log10", "sin", "cos", "tan", "ceil", "floor", "abs", "round"}

ApplyFunction(name, args) ==
    CASE name = "sqrt"  -> math_sqrt(args)
      [] name = "log"   -> math_log(args)
      [] name = "log10" -> math_log10(args)
      [] name = "sin"   -> math_sin(args)
      [] name = "cos"   -> math_cos(args)
      [] name = "tan"   -> math_tan(args)
      [] name = "ceil"  -> math_ceil(args)
      [] name = "floor" -> math_floor(args)
      [] name = "abs"   -> builtin_abs(args)
      [] name = "round" -> builtin_round(args)
      [] OTHER          -> Raise("KeyError", name)

----------------------------------------------------------------------------
(* ast.parse(expr, mode='eval'): the tokens of a Python expression *)

Digits == {"0", "1", "2", "3", "4", "5", "6", "7", "8", "9"}
Letters ==
    {"a", "b", "c", "d", "e", "f", "g", "h", "i", "j", "k", "l", "m", "n", "o",
     "p", "q", "r", "s", "t", "u", "v", "w", "x", "y", "z", "T", "F", "N", "_"}
Punct == {"+", "-", "*", "/", "%", "^", "~", "<", "(", ")", ",", "."}

DigitVal(c) ==
    CASE c = "0" -> 0 [] c = "1" -> 1 [] c = "2" -> 2 [] c = "3" -> 3
      [] c = "4" -> 4 [] c = "5" -> 5 [] c = "6" -> 6 [] c = "7" -> 7
      [] c = "8" -> 8 [] c = "9" -> 9

\* first position >= i of s whose character is not in set (Len(s) + 1 if none)
RECURSIVE SkipWhile(_, _, _)
SkipWhile(s, i, set) ==
    IF i <= Len(s) /\ s[i] \in set THEN SkipWhile(s, i + 1, set) ELSE i

\* first position >= i of s holding the character c (Len(s) + 1 if none)
RECURSIVE Find(_, _, _)
Find(s, i, c) ==
    IF i > Len(s) \/ s[i] = c THEN i ELSE Find(s, i + 1, c)

\* the number written by the digits s[i..j-1]
RECURSIVE DigitsVal(_, _, _)
DigitsVal(s, i, j) ==
    IF j <= i THEN 0 ELSE 10 * DigitsVal(s, i, j - 1) + DigitVal(s[j - 1])

\* the text s[i..j-1] as a string
RECURSIVE Text(_, _, _)
Text(s, i, j) == IF j <= i THEN "" ELSE Text(s, i, j - 1) \o s[j - 1]

Keywords ==
    {"and", "as", "assert", "async", "await", "break", "class", "continue",
     "def", "del", "elif", "else", "except", "finally", "for", "from",
     "global", "if", "import", "in", "is", "lambda", "nonlocal", "not", "or",
     "pass", "raise", "return", "try", "while", "with", "yield"}

Tok(k, txt, val) == [k |-> k, txt |-> txt, val |-> val]
BadTok == Tok("ERR", "", NoValue)

\* The token starting at position i of s, with the position after it:
\* NUM (int, float or imaginary literal), NAME, STR, ELLIPSIS, OP, or ERR.
\* Exponent, hexadecimal, octal, binary and underscore forms of a number and
\* double-quoted or prefixed strings are not modelled: no input of the model
\* writes them.
\* the literal s[i..e-1]: a is the end of its integer part, b the end of its
\* fraction (b = a when it has no point), e the end of the literal
NumberToken(s, i, a, b, e) ==
    IF e <= Len(s) /\ s[e] \in Letters \cup Digits THEN [tok |-> BadTok, next |-> e]
    ELSE IF e > b THEN [tok |-> Tok("NUM", "complex", ComplexVal), next |-> e]
    ELSE IF b > a
    THEN [tok |-> Tok("NUM", "float",
                      Q("float",
                        DigitsVal(s, i, a) * IPow(10, b - a - 1) + DigitsVal(s, a + 1, b),
                        IPow(10, b - a - 1))),
          next |-> e]
    ELSE IF a - i > 1 /\ s[i] = "0" /\ DigitsVal(s, i, a) # 0
    THEN [tok |-> BadTok, next |-> e]      \* leading zeros in a decimal integer
    ELSE [tok |-> Tok("NUM", "int", V("int", DigitsVal(s, i, a), 1)), next |-> e]

NumberFraction(s, i, a, b) ==
    NumberToken(s, i, a, b, IF b <= Len(s) /\ s[b] = "j" THEN b + 1 ELSE b)

NumberInteger(s, i, a) ==
    NumberFraction(s, i, a,
                   IF a <= Len(s) /\ s[a] = "." THEN SkipWhile(s, a + 1, Digits) ELSE a)

NumberAt(s, i) == NumberInteger(s, i, SkipWhile(s, i, Digits))

NameEnding(s, i, e) == [tok |-> Tok("NAME", Text(s, i, e), NoValue), next |-> e]
NameAt(s, i) == NameEnding(s, i, SkipWhile(s, i, Letters \cup Digits))

\* first position >= i of s where three quotes start (Len(s) + 1 if none)
RECURSIVE FindTriple(_, _)
FindTriple(s, i) ==
    IF i + 2 > Len(s) THEN Len(s) + 1
    ELSE IF s[i] = "'" /\ s[i + 1] = "'" /\ s[i + 2] = "'" THEN i
    ELSE FindTriple(s, i + 1)

\* the string whose text is s[i..e-1] and whose closing quotes are q wide
StringEnding(s, i, e, q) ==
    IF e > Len(s) THEN [tok |-> BadTok, next |-> e]
    ELSE [tok |-> Tok("STR", Text(s, i, e), V("str", 0, 1)), next |-> e + q]

StringAt(s, i) ==
    IF i + 2 <= Len(s) /\ s[i + 1] = "'" /\ s[i + 2] = "'"
    THEN StringEnding(s, i + 3, FindTriple(s, i + 3), 3)
    ELSE StringEnding(s, i + 1, Find(s, i + 1, "'"), 1)

OperatorAt(s, i) ==
    IF i + 2 <= Len(s) /\ s[i] = "." /\ s[i + 1] = "." /\ s[i + 2] = "."
    THEN [tok |-> Tok("ELLIPSIS", "...", V("ellipsis", 0, 1)), next |-> i + 3]
    ELSE IF i < Len(s) /\ s[i] \in {"*", "/", "<"} /\ s[i + 1] = s[i]
    THEN [tok |-> Tok("OP", s[i] \o s[i], NoValue), next |-> i + 2]
    ELSE [tok |-> Tok("OP", s[i], NoValue), next |-> i + 1]

TokenAt(s, i) ==
    IF s[i] \in Digits \/ (s[i] = "." /\ i < Len(s) /\ s[i + 1] \in Digits)
    THEN NumberAt(s, i)
    ELSE IF s[i] \in Letters THEN NameAt(s, i)
    ELSE IF s[i] = "'" THEN StringAt(s, i)
    ELSE IF s[i] \in Punct THEN OperatorAt(s, i)
    ELSE [tok |-> BadTok, next |-> i + 1]

\* the tokens of s from position i on; <<BadTok>> alone when one is malformed
RECURSIVE TokensFrom(_, _)
TokensAfter(t, rest) ==
    IF t.tok.k = "ERR" \/ (rest # <<>> /\ rest[1].k = "ERR") THEN <<BadTok>>
    ELSE <<t.tok>> \o rest
TokensWith(s, t) == TokensAfter(t, TokensFrom(s, t.next))
TokensAt(s, j) == IF j > Len(s) THEN <<>> ELSE TokensWith(s, TokenAt(s, j))
TokensFrom(s, i) == TokensAt(s, SkipWhile(s, i, {" "}))

\* a line that starts with a blank is an IndentationError
Tokenize(s) ==
    IF s # <<>> /\ s[1] = " " THEN <<BadTok>> ELSE TokensFrom(s, 1)

----------------------------------------------------------------------------
(* ast.parse(expr, mode='eval'): the syntax tree *)

\* A node of the tree: its class, its operator class / identifier / attribute
\* name, its constant, and its children in source order (a Call's children
\* are its func followed by its args).
Node(type, tag, value, kids) == [type |-> type, tag |-> tag, value |-> value, kids |-> kids]
NoNode == Node("None", "", NoValue, <<>>)

Parsed(node, pos) == [ok |-> TRUE, node |-> node, pos |-> pos]
List(nodes, pos)  == [ok |-> TRUE, nodes |-> nodes, pos |-> pos]
Fail == [ok |-> FALSE, node |-> NoNode, nodes |-> <<>>, pos |-> 0]

PeekOp(t, i, ops) == i <= Len(t) /\ t[i].k = "OP" /\ t[i].txt \in ops

OperatorClass(txt) ==
    CASE txt = "+"  -> "Add"      [] txt = "-"  -> "Sub"
      [] txt = "*"  -> "Mult"     [] txt = "/"  -> "Div"
      [] txt = "//" -> "FloorDiv" [] txt = "%"  -> "Mod"
      [] txt = "**" -> "Pow"      [] txt = "^"  -> "BitXor"
      [] txt = "<<" -> "LShift"

UnaryClass(txt) ==
    CASE txt = "-" -> "USub" [] txt = "+" -> "UAdd" [] txt = "~" -> "Invert"

\* left-associative binary levels, loosest first: ^ ; << ; + - ; * / // %
LevelOps(lvl) ==
    CASE lvl = 1 -> {"^"} [] lvl = 2 -> {"<<"} [] lvl = 3 -> {"+", "-"}
      [] lvl = 4 -> {"*", "/", "//", "%"}

\* The grammar's rules call one another through Rule, which dispatches on
\* the rule's name; lvl and acc are the arguments of the rules that take them.
RECURSIVE Rule(_, _, _, _, _)

ParseExpr(t, i)           == Rule("expr", t, i, 0, <<>>)
CompareLoop(t, i, acc)    == Rule("compare", t, i, 0, acc)
ParseLevel(t, i, lvl)     == Rule("level", t, i, lvl, <<>>)
LevelLoop(t, i, left, lvl) == Rule("levelLoop", t, i, lvl, <<left>>)
ParseFactor(t, i)         == Rule("factor", t, i, 0, <<>>)
ParsePower(t, i)          == Rule("power", t, i, 0, <<>>)
ParsePrimary(t, i)        == Rule("primary", t, i, 0, <<>>)
TrailerLoop(t, i, left)   == Rule("trailer", t, i, 0, <<left>>)
ParseArgs(t, i, acc)      == Rule("args", t, i, 0, acc)
ParseAtom(t, i)           == Rule("atom", t, i, 0, <<>>)
ParseTopList(t, i, acc)   == Rule("topList", t, i, 0, acc)

\* expression: xor_expr ('<' xor_expr)*
expr_rule(t, i) ==
    LET l == ParseLevel(t, i, 1)
    IN  IF ~l.ok THEN Fail ELSE CompareLoop(t, l.pos, <<l.node>>)

compare_rule(t, i, acc) ==
    IF PeekOp(t, i, {"<"})
    THEN LET r == ParseLevel(t, i + 1, 1)
         IN  IF ~r.ok THEN Fail ELSE CompareLoop(t, r.pos, Append(acc, r.node))
    ELSE IF Len(acc) = 1 THEN Parsed(acc[1], i)
    ELSE Parsed(Node("Compare", "Lt", NoValue, acc), i)

level_rule(t, i, lvl) ==
    LET l == IF lvl = 4 THEN ParseFactor(t, i) ELSE ParseLevel(t, i, lvl + 1)
    IN  IF ~l.ok THEN Fail ELSE LevelLoop(t, l.pos, l.node, lvl)

levelLoop_rule(t, i, left, lvl) ==
    IF PeekOp(t, i, LevelOps(lvl))
    THEN LET r == IF lvl = 4 THEN ParseFactor(t, i + 1)
                  ELSE ParseLevel(t, i + 1, lvl + 1)
         IN  IF ~r.ok THEN Fail
             ELSE LevelLoop(t, r.pos,
                            Node("BinOp", OperatorClass(t[i].txt), NoValue, <<left, r.node>>),
                            lvl)
    ELSE Parsed(left, i)

\* factor: ('+' | '-' | '~') factor | power
factor_rule(t, i) ==
    IF PeekOp(t, i, {"+", "-", "~"})
    THEN LET r == ParseFactor(t, i + 1)
         IN  IF ~r.ok THEN Fail
             ELSE Parsed(Node("UnaryOp", UnaryClass(t[i].txt), NoValue, <<r.node>>), r.pos)
    ELSE ParsePower(t, i)

\* power: primary ['**' factor]
power_rule(t, i) ==
    LET p == ParsePrimary(t, i)
    IN  IF ~p.ok THEN Fail
        ELSE IF PeekOp(t, p.pos, {"**"})
        THEN LET r == ParseFactor(t, p.pos + 1)
             IN  IF ~r.ok THEN Fail
                 ELSE Parsed(Node("BinOp", "Pow", NoValue, <<p.node, r.node>>), r.pos)
        ELSE p

\* primary: atom ( '(' arguments ')' | '.' NAME )*
primary_rule(t, i) ==
    LET a == ParseAtom(t, i)
    IN  IF ~a.ok THEN Fail ELSE TrailerLoop(t, a.pos, a.node)

trailer_rule(t, i, left) ==
    IF PeekOp(t, i, {"("})
    THEN LET a == ParseArgs(t, i + 1, <<>>)
         IN  IF ~a.ok THEN Fail
             ELSE TrailerLoop(t, a.pos, Node("Call", "", NoValue, <<left>> \o a.nodes))
    ELSE IF PeekOp(t, i, {"."})
    THEN IF i < Len(t) /\ t[i + 1].k = "NAME" /\ t[i + 1].txt \notin Keywords
         THEN TrailerLoop(t, i + 2, Node("Attribute", t[i + 1].txt, NoValue, <<left>>))
         ELSE Fail
    ELSE Parsed(left, i)

\* expressions separated by commas up to the closing parenthesis
args_rule(t, i, acc) ==
    IF PeekOp(t, i, {")"}) THEN List(acc, i + 1)
    ELSE LET e == ParseExpr(t, i)
         IN  IF ~e.ok THEN Fail
             ELSE IF PeekOp(t, e.pos, {","}) THEN ParseArgs(t, e.pos + 1, Append(acc, e.node))
             ELSE IF PeekOp(t, e.pos, {")"}) THEN List(Append(acc, e.node), e.pos + 1)
             ELSE Fail

\* atom: NUMBER | NAME | True | False | None | '...' | STRING+ | '(' ... ')'
atom_rule(t, i) ==
    IF i > Len(t) THEN Fail
    ELSE IF t[i].k \in {"NUM", "ELLIPSIS"}
    THEN Parsed(Node("Constant", "", t[i].val, <<>>), i + 1)
    ELSE IF t[i].k = "STR"
    THEN IF i < Len(t) /\ t[i + 1].k = "STR" THEN ParseAtom(t, i + 1)
         ELSE Parsed(Node("Constant", "", t[i].val, <<>>), i + 1)
    ELSE IF t[i].k = "NAME"
    THEN IF t[i].txt \in Keywords THEN Fail
         ELSE IF t[i].txt = "True" THEN Parsed(Node("Constant", "", V("bool", 1, 1), <<>>), i + 1)
         ELSE IF t[i].txt = "False" THEN Parsed(Node("Constant", "", V("bool", 0, 1), <<>>), i + 1)
         ELSE IF t[i].txt = "None" THEN Parsed(Node("Constant", "", NoValue, <<>>), i + 1)
         ELSE Parsed(Node("Name", t[i].txt, NoValue, <<>>), i + 1)
    ELSE IF PeekOp(t, i, {"("})
    THEN IF PeekOp(t, i + 1, {")"}) THEN Parsed(Node("Tuple", "", NoValue, <<>>), i + 2)
         ELSE LET e == ParseExpr(t, i + 1)
              IN  IF ~e.ok THEN Fail
                  ELSE IF PeekOp(t, e.pos, {")"}) THEN Parsed(e.node, e.pos + 1)
                  ELSE IF PeekOp(t, e.pos, {","})
                  THEN LET r == ParseArgs(t, e.pos + 1, <<e.node>>)
                       IN  IF ~r.ok THEN Fail
                           ELSE Parsed(Node("Tuple", "", NoValue, r.nodes), r.pos)
                  ELSE Fail
    ELSE Fail

\* the rest of an unparenthesised tuple, up to the end of the input
topList_rule(t, i, acc) ==
    IF i > Len(t) THEN List(acc, i)
    ELSE LET e == ParseExpr(t, i)
         IN  IF ~e.ok THEN Fail
             ELSE IF PeekOp(t, e.pos, {","}) THEN ParseTopList(t, e.pos + 1, Append(acc, e.node))
             ELSE IF e.pos > Len(t) THEN List(Append(acc, e.node), e.pos)
             ELSE Fail

Rule(rule, t, i, lvl, acc) ==
    CASE rule = "expr"      -> expr_rule(t, i)
      [] rule = "compare"   -> compare_rule(t, i, acc)
      [] rule = "level"     -> level_rule(t, i, lvl)
      [] rule = "levelLoop" -> levelLoop_rule(t, i, acc[1], lvl)
      [] rule = "factor"    -> factor_rule(t, i)
      [] rule = "power"     -> power_rule(t, i)
      [] rule = "primary"   -> primary_rule(t, i)
      [] rule = "trailer"   -> trailer_rule(t, i, acc[1])
      [] rule = "args"      -> args_rule(t, i, acc)
      [] rule = "atom"      -> atom_rule(t, i)
      [] rule = "topList"   -> topList_rule(t, i, acc)

SyntaxError == [ok |-> FALSE, tree |-> NoNode]

\* the tree of the token list t, of which r is the first expression
ParsedTokens(t, r, rest) ==
    IF r.ok /\ r.pos = Len(t) + 1
    THEN [ok |-> TRUE, tree |-> Node("Expression", "", NoValue, <<r.node>>)]
    ELSE IF r.ok /\ PeekOp(t, r.pos, {","}) /\ rest.ok
    THEN [ok |-> TRUE,
          tree |-> Node("Expression", "", NoValue, <<Node("Tuple", "", NoValue, rest.nodes)>>)]
    ELSE SyntaxError

ParseFirst(t, r) ==
    ParsedTokens(t, r, IF r.ok THEN ParseTopList(t, r.pos + 1, <<r.node>>) ELSE Fail)

ParseTokens(t) ==
    IF t = <<>> \/ t[1].k = "ERR" THEN SyntaxError ELSE ParseFirst(t, ParseExpr(t, 1))

\* ast.parse(s, mode='eval'): an Expression node over the whole of s (one
\* expression, or a tuple written without parentheses), or a SyntaxError
ast_parse(s) == ParseTokens(Tokenize(s))

----------------------------------------------------------------------------
(* safe_eval: the walk over the tree *)

\* One step of the walk, kept as a trace: safe_eval was entered on the node
\* at path (child indices from the root), or the table entry tag was applied
\* there to the operands args.
Ev(ev, path, tag, args) == [ev |-> ev, path |-> path, tag |-> tag, args |-> args]

\* the outcome r of a call together with the trace of the walk that led to it
Traced(r, log) == [ok |-> r.ok, val |-> r.val, exc |-> r.exc, msg |-> r.msg, log |-> log]

\* EvalBinOp with the operator looked up only after both operands are evaluated
EvalBinOp_late(node, path, l, r) ==
    LET enter == <<Ev("enter", path, "BinOp", <<>>)>>
    IN  IF ~l.ok THEN Traced(l, enter \o l.log)
        ELSE IF ~r.ok THEN Traced(r, enter \o l.log \o r.log)
        ELSE IF node.tag \notin ALLOWED_OPERATORS
        THEN Traced(Raise("ValueError", "Operator not allowed"), enter \o l.log \o r.log)
        ELSE Traced(ApplyBinary(node.tag, l.val, r.val),
                    enter \o l.log \o r.log
                    \o <<Ev("apply", path, node.tag, <<l.val, r.val>>)>>)

\* BinOp branch: l and r are the walks of node.left and node.right
EvalBinOp(node, path, l, r) ==
    LET enter == <<Ev("enter", path, "BinOp", <<>>)>>
    IN  IF node.tag \notin ALLOWED_OPERATORS
        THEN Traced(Raise("ValueError", "Operator not allowed"), enter)
        ELSE IF ~l.ok THEN Traced(l, enter \o l.log)
        ELSE IF ~r.ok THEN Traced(r, enter \o l.log \o r.log)
        ELSE Traced(ApplyBinary(node.tag, l.val, r.val),
                    enter \o l.log \o r.log
                    \o <<Ev("apply", path, node.tag, <<l.val, r.val>>)>>)

\* UnaryOp branch: o is the walk of node.operand
EvalUnaryOp(node, path, o) ==
    LET enter == <<Ev("enter", path, "UnaryOp", <<>>)>>
    IN  IF node.tag \notin ALLOWED_OPERATORS
        THEN Traced(Raise("ValueError", "Unary operator not allowed"), enter)
        ELSE IF ~o.ok THEN Traced(o, enter \o o.log)
        ELSE Traced(ApplyUnary(node.tag, o.val),
                    enter \o o.log \o <<Ev("apply", path, node.tag, <<o.val>>)>>)

\* Call branch: a is the walk of node.args, in order, up to the first failure
EvalCall(node, path, a) ==
    LET enter == <<Ev("enter", path, "Call", <<>>)>>
        func  == node.kids[1]
    IN  IF func.type # "Name"
        THEN Traced(Raise("ValueError", "Invalid function"), enter)
        ELSE IF func.tag \notin ALLOWED_FUNCTIONS
        THEN Traced(Raise("ValueError", "Function not allowed"), enter)
        ELSE IF ~a.ok THEN Traced(a, enter \o a.log)
        ELSE Traced(ApplyFunction(func.tag, a.vals),
                    enter \o a.log \o <<Ev("apply", path, func.tag, a.vals)>>)

EvalConstant(node, path) ==
    LET enter == <<Ev("enter", path, "Constant", <<>>)>>
    IN  IF node.value.t \in {"int", "bool", "float"}   \* isinstance(value, (int, float))
        THEN Traced(Ok(node.value), enter)
        ELSE Traced(Raise("ValueError", "Only numbers are allowed"), enter)

RECURSIVE safe_eval_at(_, _), EvalArgs(_, _, _, _)

safe_eval_at(node, path) ==
    CASE node.type = "Expression" ->
           LET b == safe_eval_at(node.kids[1], Append(path, 1))
           IN  Traced(b, <<Ev("enter", path, "Expression", <<>>)>> \o b.log)
      [] node.type = "Constant" -> EvalConstant(node, path)
      [] node.type = "BinOp" ->
           EvalBinOp(node, path, safe_eval_at(node.kids[1], Append(path, 1)),
                                 safe_eval_at(node.kids[2], Append(path, 2)))
      [] node.type = "UnaryOp" ->
           EvalUnaryOp(node, path, safe_eval_at(node.kids[1], Append(path, 1)))
      [] node.type = "Call" -> EvalCall(node, path, EvalArgs(node, 2, path, <<>>))
      [] OTHER ->
           Traced(Raise("ValueError", "Invalid expression"), <<Ev("enter", path, node.type, <<>>)>>)

\* [safe_eval(a) for a in node.args]: kids[i..] evaluated left to right
EvalArgs(node, i, path, vals) ==
    IF i > Len(node.kids)
    THEN [ok |-> TRUE, val |-> NoValue, exc |-> "", msg |-> "", log |-> <<>>, vals |-> vals]
    ELSE LET r == safe_eval_at(node.kids[i], Append(path, i))
         IN  IF ~r.ok
             THEN [ok |-> FALSE, val |-> NoValue, exc |-> r.exc, msg |-> r.msg,
                   log |-> r.log, vals |-> <<>>]
             ELSE LET rest == EvalArgs(node, i + 1, path, Append(vals, r.val))
                  IN  [rest EXCEPT !.log = r.log \o rest.log]

safe_eval(node) == safe_eval_at(node, <<>>)

\* replace_percent with count = 1: only the first '%' is rewritten
RECURSIVE replace_percent_once(_)
replace_percent_once(s) ==
    IF s = <<>> THEN <<>>
    ELSE IF Head(s) = "%" THEN <<"/", "1", "0", "0">> \o Tail(s)
    ELSE <<Head(s)>> \o replace_percent_once(Tail(s))

\* replace_percent left out: '%' reaches the parser as the modulo operator
replace_percent_none(s) == s

\* expr.replace('%', '/100')
RECURSIVE replace_percent(_)
replace_percent(s) ==
    IF s = <<>> THEN <<>>
    ELSE (IF Head(s) = "%" THEN <<"/", "1", "0", "0">> ELSE <<Head(s)>>)
         \o replace_percent(Tail(s))

\* evaluate_expression as one call
EvalParsed(p) ==
    IF ~p.ok THEN Traced(Raise("SyntaxError", "invalid syntax"), <<>>)
    ELSE safe_eval(p.tree)
evaluate_expression(s) == EvalParsed(ast_parse(replace_percent(s)))

----------------------------------------------------------------------------
(* The inputs evaluate_expression is called with *)

MaxLen == 3

Alphabet == {"0", "1", "2", "%", "+", "-", "*", "/", "(", ")", "^", "~", ".", "a"}

\* every string over Alphabet of length 0..MaxLen
Strings == UNION {[1..n -> Alphabet] : n \in 0..MaxLen}

\* the expressions the specification and its test properties name, and
\* expressions of the same shapes
Examples ==
    {<<"5", "0", "%">>, <<"8", "%", "+", "2">>, <<"2", "+", "5", "0", "%">>,
     <<"2", "+", "2", "*", "3">>, <<"(", "2", "+", "2", ")", "*", "3">>,
     <<"1", "0", "/", "0">>, <<"1", "0", "%", "0">>,
     <<"s", "q", "r", "t", "(", "-", "1", ")">>,
     <<"s", "q", "r", "t", "(", "4", ")">>, <<"2", "^", "3">>,
     <<"r", "o", "u", "n", "d", "(", "2", ".", "5", "6", "7", ",", " ", "2", ")">>,
     <<"l", "o", "g", "(", "8", ",", " ", "2", ")">>,
     <<"s", "q", "r", "t", "(", ")">>,
     <<"a", "b", "s", "(", "1", ",", " ", "2", ")">>,
     <<"r", "o", "u", "n", "d", "(", ")">>, <<"T", "r", "u", "e">>,
     <<"F", "a", "l", "s", "e">>, <<"T", "r", "u", "e", "+", "1">>,
     <<"1", "j">>, <<"'", "a", "'">>, <<"N", "o", "n", "e">>,
     <<"(", "-", "8", ")", "*", "*", "0", ".", "5">>,
     <<"(", "-", "8", ")", "*", "*", "2">>, <<"4", "*", "*", "0", ".", "5">>,
     <<"i", "m", "p", "o", "r", "t", "_", "o", "s", "(", ")">>,
     <<"_", "_", "i", "m", "p", "o", "r", "t", "_", "_", "(", "'", "o", "s", "'", ")">>,
     <<"o", "s", ".", "s", "y", "s", "t", "e", "m", "(", "1", ")">>, <<"x">>,
     <<"2", "+", "x">>, <<"s", "q", "r", "t", "(", "2", "^", "3", ")">>,
     <<"2", "^", "(", "1", "/", "0", ")">>,
     <<"l", "o", "g", "(", "1", "/", "0", ",", " ", "2", "^", "3", ")">>,
     <<"f", "l", "o", "o", "r", "(", "7", "/", "2", ")">>, <<"1", "<", "2">>,
     <<"1", "/", "(", "1", "-", "1", ")">>, <<"0", ".", "0", "/", "(", "2", "-", "2", ")">>,
     <<"s", "q", "r", "t", "(", "-", "1", ")", "+", "1", "/", "0">>}

Inputs == Strings \cup Examples

----------------------------------------------------------------------------
(* The HTTP layer: history helpers and handlers of api.py *)

MAX_HISTORY == 50
Clients == {1, 2}

\* calc_history.json: valid is whether the file holds a complete JSON
\* document, items the list it then holds
File(valid, items) == [valid |-> valid, items |-> items]

\* a history record; inputs and result are the numbers of its "inputs" and
\* "result" members
Item(type, e, inputs, res) ==
    [type |-> type, expr |-> e, inputs |-> inputs, result |-> res, at |-> 0]
NoItem == Item("", <<>>, <<>>, <<>>)

Response(path, status, val, detail) ==
    [path |-> path, status |-> status, result |-> val, detail |-> detail]
NoResponse == Response("", 0, <<>>, "")

\* load_history: the list in the file; [] when the file is missing or does
\* not parse
load_history(f) == IF f.valid THEN f.items ELSE <<>>

\* json.dump accepts ints and floats (NaN and Infinity included), not complex
Serializable(history) ==
    \A i \in 1..Len(history) :
        \A j \in 1..Len(history[i].result) : history[i].result[j].t # "complex"

\* save_history: open(..., "w") empties the file, json.dump writes the list
\* piece by piece; an exception part way is swallowed and leaves the file cut
\* short
save_history(history) ==
    IF Serializable(history) THEN File(TRUE, history) ELSE File(FALSE, <<>>)

Take(seq, n) == SubSeq(seq, 1, IF Len(seq) < n THEN Len(seq) ELSE n)

\* the list push_history builds from the loaded one: item stamped with the
\* time, inserted at index 0, cut to MAX_HISTORY
Inserted(history, item, now) ==
    Take(<<[item EXCEPT !.at = now]>> \o history, MAX_HISTORY)

\* push_history(item) on the file f at time now: the file it leaves
push_history(f, item, now) == save_history(Inserted(load_history(f), item, now))

\* str.strip() on the blank
RECURSIVE StripLeft(_), StripRight(_)
StripLeft(s)  == IF s # <<>> /\ Head(s) = " " THEN StripLeft(Tail(s)) ELSE s
StripRight(s) ==
    IF s # <<>> /\ s[Len(s)] = " " THEN StripRight(SubSeq(s, 1, Len(s) - 1)) ELSE s
Strip(s) == StripRight(StripLeft(s))

\* float(val)
to_float(v) ==
    IF v.t = "complex" THEN Raise("TypeError", "float() argument must be a string or a real number")
    ELSE Ok(V("float", v.n, v.d))

\* an outcome of a handler: its response and, when it called push_history,
\* the record it pushed
Handled(response, push, item) == [resp |-> response, push |-> push, item |-> item]
BadRequest(path, detail) == Handled(Response(path, 400, <<>>, detail), FALSE, NoItem)

\* calc_body with push_history called before the result is converted
calc_body_push_first(x, r, f) ==
    IF x = <<>> THEN BadRequest("/calc", "Empty expression")
    ELSE IF ~r.ok THEN BadRequest("/calc", r.exc)
    ELSE IF ~f.ok
    THEN Handled(Response("/calc", 400, <<>>, f.exc), TRUE, Item("calc", x, <<>>, <<r.val>>))
    ELSE Handled(Response("/calc", 200, <<r.val>>, ""), TRUE,
                 Item("calc", x, <<>>, <<f.val>>))

\* calc from the stripped expression x on: r is what evaluate_expression(x)
\* does and f what float(val) does
calc_body(x, r, f) ==
    IF x = <<>> THEN BadRequest("/calc", "Empty expression")
    ELSE IF ~r.ok THEN BadRequest("/calc", r.exc)
    ELSE IF ~f.ok THEN BadRequest("/calc", f.exc)
    ELSE Handled(Response("/calc", 200, <<r.val>>, ""), TRUE,
                 Item("calc", x, <<>>, <<f.val>>))

calc_evaluated(x, r) == calc_body(x, r, to_float(r.val))
calc_stripped(x) == calc_evaluated(x, evaluate_expression(x))

\* POST /calc
calc(e) == calc_stripped(Strip(e))

Hundred == V("float", 100, 1)
One     == V("int", 1, 1)

\* POST /simple: si_val = (P * R * T) / 100.0, total = P + si_val
simple(si) ==
    LET prod  == op_mul(op_mul(si.P, si.R).val, si.T).val
        siVal == op_truediv(prod, Hundred).val
        total == op_add(si.P, siVal).val
    IN  Handled(Response("/simple", 200, <<siVal, total>>, ""), TRUE,
                Item("simple", <<>>, <<si.P, si.R, si.T>>, <<siVal, total>>))

\* POST /compound: A = P * ((1 + r / n) ** (n * T)), ci_val = A - P
compound(ci) ==
    LET r     == op_truediv(ci.rate_percent, Hundred).val
        base  == op_add(One, op_truediv(r, ci.n).val).val
        power == op_pow(base, op_mul(ci.n, ci.T).val)
        A     == op_mul(ci.P, power.val).val
        ciVal == op_sub(A, ci.P).val
    IN  IF ci.n.n <= 0 THEN BadRequest("/compound", "ValueError")
        ELSE IF ~power.ok THEN BadRequest("/compound", power.exc)
        ELSE Handled(Response("/compound", 200, <<ciVal, A>>, ""), TRUE,
                     Item("compound", <<>>, <<ci.P, ci.rate_percent, ci.T, ci.n>>,
                          <<ciVal, A>>))

NotYet == Traced(Raise("", ""), <<>>)

ApiIdle ==
    /\ file = File(TRUE, <<>>)
    /\ clock = 0
    /\ resp = NoResponse
    /\ pushed = <<>>

ClientsIdle ==
    /\ cpc = [c \in Clients |-> "idle"]
    /\ chist = [c \in Clients |-> <<>>]
    /\ citem = [c \in Clients |-> NoItem]

EvalIdle ==
    /\ pc = "idle"
    /\ input = <<>>
    /\ expr = <<>>
    /\ parsed = SyntaxError
    /\ result = NotYet

----------------------------------------------------------------------------
(* evaluate_expression, statement by statement *)

Init ==
    /\ input \in Inputs
    /\ expr = input
    /\ pc = "call"
    /\ parsed = SyntaxError
    /\ result = NotYet
    /\ ApiIdle
    /\ ClientsIdle

\* expr = expr.replace('%', '/100')
Replace ==
    /\ pc = "call"
    /\ expr' = replace_percent(expr)
    /\ pc' = "replaced"
    /\ UNCHANGED <<input, parsed, result, apiVars, concVars>>

\* parsed = ast.parse(expr, mode='eval'); a SyntaxError leaves the call
Parse ==
    /\ pc = "replaced"
    /\ parsed' = ast_parse(expr)
    /\ IF parsed'.ok
       THEN pc' = "parsed" /\ UNCHANGED result
       ELSE pc' = "done" /\ result' = Traced(Raise("SyntaxError", "invalid syntax"), <<>>)
    /\ UNCHANGED <<input, expr, apiVars, concVars>>

\* return safe_eval(parsed)
SafeEval ==
    /\ pc = "parsed"
    /\ result' = safe_eval(parsed.tree)
    /\ pc' = "done"
    /\ UNCHANGED <<input, expr, parsed, apiVars, concVars>>

Next == Replace \/ Parse \/ SafeEval

Spec == Init /\ [][Next]_vars

----------------------------------------------------------------------------
(* The API serving one request at a time *)

MaxClock == 52      \* pushes in a run
MaxMixed == 2       \* pushes in a run that may be other than the default /calc

F(n, d) == V("float", n, d)

\* request bodies of /calc; the first one is the default
DefaultRequest == <<"1", "+", "1">>
CalcRequests ==
    {DefaultRequest, <<>>, <<" ">>, <<" ", "5", "0", "%", " ">>, <<"1", "/", "0">>,
     <<"2", "^", "3">>, <<"(", "-", "8", ")", "*", "*", "0", ".", "5">>,
     <<"1", "+">>}
SimpleRequests == {[P |-> F(1000, 1), R |-> F(5, 1), T |-> F(2, 1)]}
CompoundRequests ==
    {[P |-> F(1000, 1), rate_percent |-> F(5, 1), T |-> F(2, 1), n |-> V("int", 1, 1)],
     [P |-> F(1, 1), rate_percent |-> F(-300, 1), T |-> F(1, 2), n |-> V("int", 1, 1)],
     [P |-> F(1, 1), rate_percent |-> F(-100, 1), T |-> F(-1, 1), n |-> V("int", 1, 1)],
     [P |-> F(1000, 1), rate_percent |-> F(5, 1), T |-> F(2, 1), n |-> V("int", 0, 1)]}

InitApi ==
    /\ EvalIdle
    /\ ApiIdle
    /\ ClientsIdle

\* a handler's outcome h takes effect: its response, and its push if any
Serve(h) ==
    /\ resp' = h.resp
    /\ IF h.push
       THEN /\ clock < MaxClock
            /\ clock' = clock + 1
            /\ file' = push_history(file, h.item, clock + 1)
            /\ pushed' = <<[h.item EXCEPT !.at = clock + 1]>> \o pushed
       ELSE UNCHANGED <<file, clock, pushed>>
    /\ UNCHANGED <<evalVars, concVars>>

Calc ==
    \E e \in CalcRequests :
        \E h \in {calc(e)} :
            /\ (h.push /\ e # DefaultRequest) => clock < MaxMixed
            /\ Serve(h)

Simple ==
    \E si \in SimpleRequests :
        \E h \in {simple(si)} :
            /\ clock < MaxMixed
            /\ Serve(h)

Compound ==
    \E ci \in CompoundRequests :
        \E h \in {compound(ci)} :
            /\ h.push => clock < MaxMixed
            /\ Serve(h)

\* POST /history/clear
ClearHistory ==
    /\ file' = save_history(<<>>)
    /\ pushed' = <<>>
    /\ resp' = Response("/history/clear", 200, <<>>, "")
    /\ UNCHANGED <<clock, evalVars, concVars>>

NextApi == Calc \/ Simple \/ Compound \/ ClearHistory

SpecApi == InitApi /\ [][NextApi]_vars

----------------------------------------------------------------------------
(* The API serving /calc requests concurrently: the handlers are plain   *)
(* functions, which the server runs on a pool of threads, and nothing    *)
(* serialises their reads and writes of the history file.                *)

ConcRequests == {DefaultRequest, <<"5", "0", "%">>, <<"1", "/", "0">>}

\* calc up to the call of push_history
Request(c) ==
    /\ cpc[c] = "idle"
    /\ \E e \in ConcRequests :
          \E h \in {calc(e)} :
              IF h.push
              THEN /\ citem' = [citem EXCEPT ![c] = h.item]
                   /\ cpc' = [cpc EXCEPT ![c] = "load"]
              ELSE /\ cpc' = [cpc EXCEPT ![c] = "done"]
                   /\ UNCHANGED citem
    /\ UNCHANGED <<chist, evalVars, apiVars>>

\* history = load_history()
Load(c) ==
    /\ cpc[c] = "load"
    /\ chist' = [chist EXCEPT ![c] = load_history(file)]
    /\ cpc' = [cpc EXCEPT ![c] = "insert"]
    /\ UNCHANGED <<citem, evalVars, apiVars>>

\* item["at"] = now; history.insert(0, item); history = history[:MAX_HISTORY]
Insert(c) ==
    /\ cpc[c] = "insert"
    /\ clock' = clock + 1
    /\ citem' = [citem EXCEPT ![c].at = clock + 1]
    /\ chist' = [chist EXCEPT ![c] = Inserted(chist[c], citem[c], clock + 1)]
    /\ cpc' = [cpc EXCEPT ![c] = "open"]
    /\ UNCHANGED <<file, resp, pushed, evalVars>>

\* save_history: open(HISTORY_FILE, "w") empties the file
Open(c) ==
    /\ cpc[c] = "open"
    /\ file' = File(FALSE, <<>>)
    /\ cpc' = [cpc EXCEPT ![c] = "dump"]
    /\ UNCHANGED <<chist, citem, clock, resp, pushed, evalVars>>

\* save_history: json.dump and close.  When another writer has written since
\* this one opened the file, the two texts overlap from offset 0 and what is
\* left is this writer's text or not a JSON document.
Dump(c) ==
    /\ cpc[c] = "dump"
    /\ \/ file' = save_history(chist[c])
       \/ file.valid /\ file' = File(FALSE, <<>>)
    /\ cpc' = [cpc EXCEPT ![c] = "done"]
    /\ UNCHANGED <<chist, citem, clock, resp, pushed, evalVars>>

NextConc ==
    \E c \in Clients : Request(c) \/ Load(c) \/ Insert(c) \/ Open(c) \/ Dump(c)

SpecConc == InitApi /\ [][NextConc]_vars

----------------------------------------------------------------------------
(* Properties of evaluate_expression *)

Done == pc = "done"

Str(s) == [i \in 1..Len(s) |-> s[i]]

Applied == {k \in 1..Len(result.log) : result.log[k].ev = "apply"}
Entered == {k \in 1..Len(result.log) : result.log[k].ev = "enter"}

RECURSIVE NodeAt(_, _)
NodeAt(node, path) ==
    IF path = <<>> THEN node ELSE NodeAt(node.kids[Head(path)], Tail(path))

\* every node of the tree, paired with whether it is the func of a Call
RECURSIVE Nodes(_, _)
Nodes(node, isFunc) ==
    {[node |-> node, isFunc |-> isFunc]}
    \cup UNION {Nodes(node.kids[i], node.type = "Call" /\ i = 1) : i \in 1..Len(node.kids)}

\* what the allow-list admits: numbers, the eight operators, and calls of the
\* ten functions by their plain name
Permitted(node, isFunc) ==
    \/ node.type = "Expression"
    \/ node.type = "Constant"
    \/ node.type = "BinOp" /\ node.tag \in {"Add", "Sub", "Mult", "Div", "Pow", "Mod"}
    \/ node.type = "UnaryOp" /\ node.tag \in {"USub", "UAdd"}
    \/ node.type = "Call"
    \/ /\ node.type = "Name"
       /\ isFunc
       /\ node.tag \in {"sqrt", "log", "log10", "sin", "cos", "tan", "ceil", "floor", "abs", "round"}

\* the node safe_eval was entered on at step k of the walk, with a func that
\* is not an allow-listed name counted against the Call
Rejectable(k) ==
    LET n == NodeAt(parsed.tree, result.log[k].path)
    IN  \/ ~Permitted(n, FALSE)
        \/ n.type = "Call" /\ ~Permitted(n.kids[1], TRUE)

Width(c) == IF c = "%" THEN 4 ELSE 1
RECURSIVE Offset(_, _)
Offset(s, i) == IF i = 1 THEN 0 ELSE Offset(s, i - 1) + Width(s[i - 1])
Substituted(s) ==
    LET total == IF s = <<>> THEN 0 ELSE Offset(s, Len(s)) + Width(s[Len(s)])
        src(k) == CHOOSE i \in 1..Len(s) : Offset(s, i) < k /\ k <= Offset(s, i) + Width(s[i])
    IN  [k \in 1..total |->
            IF s[src(k)] # "%" THEN s[src(k)]
            ELSE <<"/", "1", "0", "0">>[k - Offset(s, src(k))]]

OutcomeOf(text) == EvalParsed(ast_parse(text))

\* C2: the outcome of evaluate_expression(s) is the outcome of parsing and
\* evaluating s with every '%' textually replaced by "/100"; the text handed
\* to the parser holds no '%', and no evaluation applies the modulo operator.
C2_PercentIsTextual ==
    /\ pc \in {"replaced", "parsed", "done"} =>
          /\ expr = Substituted(input)
          /\ \A i \in 1..Len(expr) : expr[i] # "%"
    /\ Done =>
          /\ result = OutcomeOf(Substituted(input))
          /\ \A k \in Applied : result.log[k].tag # "Mod"

\* a '%' directly followed by a digit: the digits run into the "100"
C2_Witness ==
    /\ Done
    /\ result.ok
    /\ \E i \in 1..(Len(input) - 1) : input[i] = "%" /\ input[i + 1] \in Digits

\* C3 (as amended): evaluate_expression("50%") returns 0.5 and
\* evaluate_expression("8%+2") returns 2.08.
C3_PercentExamples ==
    Done =>
        /\ input = Str(<<"5", "0", "%">>) =>
              result.ok /\ result.val = V("float", 1, 2)
        /\ input = Str(<<"8", "%", "+", "2">>) =>
              result.ok /\ result.val = V("float", 52, 25)

C3_Witness == Done /\ input = Str(<<"8", "%", "+", "2">>) /\ result.ok

\* C3 as stated: evaluate_expression("50%") returns 0.5 and
\* evaluate_expression("8%+2") returns 0.1.
C3_AsStated ==
    Done =>
        /\ input = Str(<<"5", "0", "%">>) =>
              result.ok /\ result.val = V("float", 1, 2)
        /\ input = Str(<<"8", "%", "+", "2">>) =>
              result.ok /\ result.val = V("float", 1, 10)

\* C4: whenever a division or a modulo is applied to a right operand that is
\* zero, the call ends there with a ZeroDivisionError and returns no value.
C4_DivisionByZeroFails ==
    Done =>
        \A k \in Applied :
            (result.log[k].tag \in {"Div", "Mod"} /\ IsZero(result.log[k].args[2])) =>
                /\ ~result.ok
                /\ result.exc = "ZeroDivisionError"
                /\ k = Len(result.log)

\* a division by a zero that is itself computed
C4_Witness ==
    /\ Done
    /\ \E k \in Applied :
          /\ result.log[k].tag = "Div"
          /\ IsZero(result.log[k].args[2])
          /\ \E j \in Applied : j < k
    /\ result.exc = "ZeroDivisionError"

\* C5: a call of an allow-listed function written with zero arguments or with
\* two or more fails and returns no value.
C5_OneArgumentOnly ==
    Done =>
        \A x \in Nodes(parsed.tree, FALSE) :
            (/\ x.node.type = "Call"
             /\ x.node.kids[1].type = "Name"
             /\ x.node.kids[1].tag \in ALLOWED_FUNCTIONS
             /\ Len(x.node.kids) # 2) => ~result.ok

\* C6: an expression holding a literal that is not a plain integer or float
\* (a boolean, a complex number, a string, None) yields no value.
C6_NonNumberLiteralsRejected ==
    Done =>
        \A x \in Nodes(parsed.tree, FALSE) :
            (x.node.type = "Constant" /\ x.node.value.t \notin {"int", "float"}) => ~result.ok

\* C7: a call that returns a value returns a real number, never a complex one.
C7_NeverComplex ==
    (Done /\ result.ok) => result.val.t \in {"int", "bool", "float"}

\* every value the evaluator returns in the model is tracked exactly, except
\* the complex ones
ValuesTracked ==
    (Done /\ result.ok /\ result.val.t # "complex") => IsTracked(result.val)

----------------------------------------------------------------------------
(* Properties of the history log *)

\* C8: the persisted history holds at most MAX_HISTORY records, newest
\* first, and is the MAX_HISTORY most recent pushes since the last clear.
C8_LogIsRecentPushes ==
    /\ Len(load_history(file)) <= MAX_HISTORY
    /\ load_history(file) = Take(pushed, MAX_HISTORY)

\* C9: once every concurrent /calc request has completed, the log holds the
\* record of each request that evaluated successfully.
C9_NoLostEntry ==
    (\A c \in Clients : cpc[c] = "done") =>
        \A c \in Clients :
            citem[c] # NoItem =>
                \E i \in 1..Len(load_history(file)) : load_history(file)[i] = citem[c]

\* C10: a /calc request answers 400 or 200; answered with 400 (empty
\* expression, failed evaluation, result that float() rejects) it leaves the
\* history file as it was; answered with 200 it has put exactly one calc
\* record in front of the log, the rest following in order up to MAX_HISTORY.
C10_FailedCalcLeavesLog ==
    [][resp'.path = "/calc" =>
          /\ resp'.status \in {200, 400}
          /\ resp'.status = 400 => file' = file
          /\ resp'.status = 200 =>
                /\ file'.valid
                /\ file'.items # <<>>
                /\ file'.items[1].type = "calc"
                /\ file'.items[1].at = clock'
                /\ clock' = clock + 1
                /\ file'.items = Take(<<file'.items[1]>> \o load_history(file), MAX_HISTORY)]_vars

\* a request whose result float() rejects, made against a full log
C10_Witness ==
    /\ resp.path = "/calc"
    /\ resp.status = 400
    /\ resp.detail = "TypeError"
    /\ Len(load_history(file)) = MAX_HISTORY

====
